---- MODULE Spec2Model ----
(***************************************************************************)
(* goperconn: a pseudo-persistent client connection.                       *)
(*                                                                         *)
(* New validates the configuration and starts one goroutine (the           *)
(* supervisor) that dials, backs off on dial failure, and runs proxy on    *)
(* each socket it obtains.  proxy ranges over the client.jobs channel and  *)
(* performs each job against the socket.  Read, Write and Close build a    *)
(* rillJob, send it on client.jobs and wait on job.results.                *)
(*                                                                         *)
(* Durations are time.Duration (a signed 64-bit integer) in the source.    *)
(* The model keeps the two's-complement wrap of retry *= 2 at a reduced    *)
(* width of IntBits bits; MaxDur plays the part of math.MaxInt64.          *)
(***************************************************************************)
EXTENDS Integers, Sequences, FiniteSets, TLC

\* ---------------------------------------------------------------- bounds
IntBits == 6
MaxJobs == 2
MaxSocks == 2
MaxDialFails == 2

\* ------------------------------------------------------- program constants
DefaultJobQueueSize == 10

\* ------------------------------------------------------------- durations
MaxDur == 2^(IntBits - 1) - 1
MinDur == -(2^(IntBits - 1))

\* Two's-complement wrap of an integer to the width of time.Duration.
Wrap(x) == ((x - MinDur) % 2^IntBits) + MinDur

Min(a, b) == IF a < b THEN a ELSE b

\* ---------------------------------------------------------------- opcodes
_close == "_close"
_read == "_read"
_write == "_write"
opcode == {_close, _read, _write}

\* ----------------------------------------------------------------- errors
\* An error value is a tuple of strings; nil is the empty tuple.
nil == <<>>
EIO == <<"EIO">>
ErrClosedConnection == <<"ErrClosedConnection">>
ErrIOError(op, err) == <<"ErrIOError", op>> \o err
EDIAL == <<"EDIAL">>
ErrDialFailure(address, err) == <<"ErrDialFailure", address>> \o err

rillResult(n, err) == [n |-> n, err |-> err]

\* ---------------------------------------------------------- configurations
\* The client goroutines that call Read, Write and Close.
Callers == {"c1", "c2"}
JobIds == 1..MaxJobs

\* The bytes of "hello, world".
Hello == <<"h", "e", "l", "l", "o", ",", " ", "w", "o", "r", "l", "d">>

\* The data a caller hands to Write.
Payloads == {Hello}

\* The counts a socket's Read or Write may return.
Counts == {0, 12}

\* The settings a client may hand to New (after the Configurators ran).
Configs ==
    { [address |-> "host", printer |-> TRUE, retryMin |-> 1, retryMax |-> 8],
      [address |-> "host", printer |-> FALSE, retryMin |-> 2, retryMax |-> 3],
      [address |-> "host", printer |-> TRUE, retryMin |-> 2^(IntBits - 2),
       retryMax |-> MaxDur],
      [address |-> "host", printer |-> TRUE, retryMin |-> -1, retryMax |-> 8],
      [address |-> "host", printer |-> TRUE, retryMin |-> 0, retryMax |-> 8],
      [address |-> "host", printer |-> TRUE, retryMin |-> 1, retryMax |-> 0],
      [address |-> "host", printer |-> TRUE, retryMin |-> 8, retryMax |-> 1],
      [address |-> "", printer |-> TRUE, retryMin |-> 1, retryMax |-> 8] }

VARIABLES
    cfg,        \* the Conn's address, printer, retryMin, retryMax
    printed,    \* what the goroutine's last step handed to client.printer.Print
    sup,        \* position of the goroutine New starts
    retry,      \* the goroutine's local retry
    conn,       \* the socket the goroutine holds (0: none)
    closed,     \* proxy's local closed
    cur,        \* the job proxy is performing (0: none)
    jobs,       \* client.jobs, the channel of jobs
    jobOp,      \* job.op of every job created
    jobData,    \* job.data of every job created
    results,    \* job.results of every job created
    nextJob,    \* jobs created so far + 1
    cpc,        \* position of every caller
    cjob,       \* the job of the caller's current call
    returned,   \* what the call of every job returned (empty: not yet)
    open,       \* sockets dialed and not yet closed
    nextSock,   \* sockets dialed so far + 1
    slept,      \* argument of the last time.Sleep
    dialFails,  \* dial failures since the last successful dial
    grown,      \* history: retry differed from retryMin at the last successful dial
    accepted,   \* history: jobs in the order client.jobs accepted them
    execLog,    \* history: <<job, socket>> in the order of socket operations
    popCount,   \* history: times each job was received from client.jobs
    sendCount,  \* history: results sent on each job's results channel
    sockRet,    \* history: what the socket operation of each job returned
    behind,     \* history: jobs that were in client.jobs when an operation failed
    suspended,  \* history: jobs whose send waited on a full client.jobs at a receive
    afterClose  \* history: jobs created after a Close call had returned

vars == <<cfg, printed, sup, retry, conn, closed, cur, jobs, jobOp, jobData, results, nextJob,
          cpc, cjob, returned, open, nextSock, slept, dialFails, grown,
          accepted,
          execLog, popCount, sendCount, sockRet, behind, suspended, afterClose>>

supVars == <<printed, sup, retry, conn, closed, cur, open, nextSock, slept, dialFails,
             grown>>
callerVars == <<cpc, cjob, returned, nextJob, jobOp, jobData, afterClose>>
histVars == <<accepted, execLog, popCount, sendCount, sockRet, behind, suspended>>

\* New's validation of the configuration: TRUE when New returns a Conn.
NewAccepts(c) ==
    /\ c.retryMin # 0
    /\ c.retryMax # 0
    /\ ~(c.retryMax < c.retryMin)
    /\ c.address # ""

\* State after New returned: the goroutine is about to dial, or was not started.
Init ==
    /\ cfg \in Configs
    /\ printed = <<>>
    /\ sup = IF NewAccepts(cfg) THEN "dial" ELSE "none"
    /\ retry = cfg.retryMin
    /\ conn = 0
    /\ closed = FALSE
    /\ cur = 0
    /\ jobs = <<>>
    /\ jobOp = [j \in JobIds |-> _read]
    /\ jobData = [j \in JobIds |-> <<>>]
    /\ results = [j \in JobIds |-> <<>>]
    /\ nextJob = 1
    /\ cpc = [c \in Callers |-> "idle"]
    /\ cjob = [c \in Callers |-> 0]
    /\ returned = [j \in JobIds |-> <<>>]
    /\ open = {}
    /\ nextSock = 1
    /\ slept = 0
    /\ dialFails = 0
    /\ grown = FALSE
    /\ accepted = <<>>
    /\ execLog = <<>>
    /\ popCount = [j \in JobIds |-> 0]
    /\ sendCount = [j \in JobIds |-> 0]
    /\ sockRet = [j \in JobIds |-> <<>>]
    /\ behind = {}
    /\ suspended = {}
    /\ afterClose = {}

\* ------------------------------------------------------------ supervisor
\* Faulty variant of printerPrint: the error is not reported.
printerQuiet(err) == <<>>

\* Faulty variant of printerPrint: the test err != nil is missing.
printerUnguarded(err) ==
    IF cfg.printer THEN <<err>> ELSE <<>>

\* if err != nil && client.printer != nil { client.printer.Print(err) }
printerPrint(err) ==
    IF err # nil /\ cfg.printer THEN <<err>> ELSE <<>>

\* retry *= 2; if retry > client.retryMax { retry = client.retryMax }
NextRetry(r) ==
    LET d == Wrap(r * 2)
    IN  IF d > cfg.retryMax THEN cfg.retryMax ELSE d

\* Faulty variant of DialFail: the oldest waiting job is answered with the
\* dial failure.
DialFailSurfaces ==
    /\ sup = "dial"
    /\ dialFails < MaxDialFails
    /\ sup' = "sleepFail"
    /\ slept' = retry
    /\ dialFails' = dialFails + 1
    /\ printed' = printerPrint(ErrDialFailure(cfg.address, EDIAL))
    /\ IF jobs # <<>>
       THEN /\ jobs' = Tail(jobs)
            /\ results' = [results EXCEPT ![Head(jobs)] =
                   Append(@, rillResult(0, ErrDialFailure(cfg.address, EDIAL)))]
            /\ popCount' = [popCount EXCEPT ![Head(jobs)] = @ + 1]
            /\ sendCount' = [sendCount EXCEPT ![Head(jobs)] = @ + 1]
       ELSE UNCHANGED <<jobs, results, popCount, sendCount>>
    /\ UNCHANGED <<cfg, retry, conn, closed, cur, open, nextSock, grown>>
    /\ UNCHANGED callerVars
    /\ UNCHANGED <<accepted, execLog, sockRet, behind, suspended>>

\* net.Dial / net.DialTimeout fails: time.Sleep(retry) begins.
DialFail ==
    /\ sup = "dial"
    /\ dialFails < MaxDialFails
    /\ sup' = "sleepFail"
    /\ slept' = retry
    /\ dialFails' = dialFails + 1
    /\ printed' = printerPrint(ErrDialFailure(cfg.address, EDIAL))
    /\ UNCHANGED <<cfg, retry, conn, closed, cur, open, nextSock, grown,
                   jobs, results>>
    /\ UNCHANGED callerVars
    /\ UNCHANGED histVars

\* Faulty variant of WakeFail: a Close job found at the head of client.jobs
\* after the sleep is answered and the goroutine returns without a socket.
WakeFailHonoursClose ==
    /\ sup = "sleepFail"
    /\ retry' = NextRetry(retry)
    /\ printed' = <<>>
    /\ IF jobs # <<>> /\ jobOp[Head(jobs)] = _close
       THEN /\ sup' = "done"
            /\ jobs' = Tail(jobs)
            /\ results' = [results EXCEPT
                   ![Head(jobs)] = Append(@, rillResult(0, nil))]
            /\ popCount' = [popCount EXCEPT ![Head(jobs)] = @ + 1]
            /\ sendCount' = [sendCount EXCEPT ![Head(jobs)] = @ + 1]
       ELSE /\ sup' = "dial"
            /\ UNCHANGED <<jobs, results, popCount, sendCount>>
    /\ UNCHANGED <<cfg, conn, closed, cur, open, nextSock, slept,
                   dialFails, grown>>
    /\ UNCHANGED callerVars
    /\ UNCHANGED <<accepted, execLog, sockRet, behind, suspended>>

\* time.Sleep(retry) returns after a dial failure: double, cap, continue.
WakeFail ==
    /\ sup = "sleepFail"
    /\ retry' = NextRetry(retry)
    /\ sup' = "dial"
    /\ printed' = <<>>
    /\ UNCHANGED <<cfg, conn, closed, cur, open, nextSock, slept,
                   dialFails, grown, jobs, results>>
    /\ UNCHANGED callerVars
    /\ UNCHANGED histVars

\* The dial succeeds: wrapper.proxy(conn) starts with closed = false.
DialOk ==
    /\ sup = "dial"
    /\ nextSock <= MaxSocks
    /\ conn' = nextSock
    /\ open' = open \cup {nextSock}
    /\ nextSock' = nextSock + 1
    /\ closed' = FALSE
    /\ grown' = (retry # cfg.retryMin)
    /\ dialFails' = 0
    /\ sup' = "proxy"
    /\ printed' = <<>>
    /\ UNCHANGED <<cfg, retry, cur, slept, jobs, results>>
    /\ UNCHANGED callerVars
    /\ UNCHANGED histVars

\* Faulty variant of Dequeue: the newest element is received first.
DequeueNewest(q) == [job |-> q[Len(q)], rest |-> SubSeq(q, 1, Len(q) - 1)]

\* The jobs whose callers are held in client.jobs <- job because the channel
\* holds DefaultJobQueueSize jobs.
SendersWaiting ==
    IF Len(jobs) = DefaultJobQueueSize
    THEN {cjob[c] : c \in {d \in DOMAIN cpc : cpc[d] = "send"}}
    ELSE {}

\* Faulty variant of SocketArg: the last byte of the data is not written.
SocketArgShort(job) ==
    IF jobOp[job] = _close THEN <<>>
    ELSE SubSeq(jobData[job], 1, Len(jobData[job]) - 1)

\* rwc.Read(job.data), rwc.Write(job.data), rwc.Close(): what the socket
\* operation of a job is handed.
SocketArg(job) == IF jobOp[job] = _close THEN <<>> ELSE jobData[job]

\* A receive from a channel holding q: the oldest element, and what is left.
Dequeue(q) == [job |-> Head(q), rest |-> Tail(q)]

\* Faulty variant of ProxyPop: the operation is started without waiting for it, so
\* the loop goes on receiving.
ProxyPopDetached ==
    /\ sup = "proxy"
    /\ jobs # <<>>
    /\ LET job == Dequeue(jobs).job
       IN  /\ jobs' = Dequeue(jobs).rest
           /\ popCount' = [popCount EXCEPT ![job] = @ + 1]
           /\ cur' = job
           /\ closed' = (closed \/ jobOp[job] = _close)
           /\ execLog' = Append(execLog, <<job, conn, SocketArg(job)>>)
           /\ UNCHANGED <<sup, results, sendCount>>
    /\ suspended' = suspended \cup SendersWaiting
    /\ printed' = <<>>
    /\ UNCHANGED <<cfg, retry, conn, open, nextSock, slept,
                   dialFails, grown, accepted, sockRet, behind>>
    /\ UNCHANGED callerVars

\* for job := range client.jobs: receive a job; answer it at once when
\* closed, otherwise start its operation on the socket.
ProxyPop ==
    /\ sup = "proxy"
    /\ jobs # <<>>
    /\ LET job == Dequeue(jobs).job
       IN  /\ jobs' = Dequeue(jobs).rest
           /\ popCount' = [popCount EXCEPT ![job] = @ + 1]
           /\ IF closed
              THEN /\ results' = [results EXCEPT
                          ![job] = Append(@, rillResult(0, ErrClosedConnection))]
                   /\ sendCount' = [sendCount EXCEPT ![job] = @ + 1]
                   /\ UNCHANGED <<sup, cur, closed, execLog>>
              ELSE /\ sup' = "io"
                   /\ cur' = job
                   /\ closed' = (closed \/ jobOp[job] = _close)
                   /\ execLog' = Append(execLog, <<job, conn, SocketArg(job)>>)
                   /\ UNCHANGED <<results, sendCount>>
    /\ suspended' = suspended \cup SendersWaiting
    /\ printed' = <<>>
    /\ UNCHANGED <<cfg, retry, conn, open, nextSock, slept,
                   dialFails, grown, accepted, sockRet, behind>>
    /\ UNCHANGED callerVars

\* Faulty variant of AfterProxy: the closed result is ignored, the goroutine redials.
AfterProxyRedials(wasClosed, err) ==
    /\ printed' = printerPrint(err)
    /\ retry' = cfg.retryMin
    /\ slept' = cfg.retryMin
    /\ sup' = "sleepBroken"

\* Faulty variant of AfterProxy: the goroutine returns whenever proxy returns.
AfterProxyStops(wasClosed, err) ==
    /\ printed' = printerPrint(err)
    /\ sup' = "done"
    /\ UNCHANGED <<retry, slept>>

\* Faulty variant of AfterProxy: retryMin is slept but retry is not reset.
AfterProxyKeepsRetry(wasClosed, err) ==
    /\ printed' = printerPrint(err)
    /\ IF wasClosed
       THEN /\ sup' = "done"
            /\ UNCHANGED <<retry, slept>>
       ELSE /\ slept' = cfg.retryMin
            /\ sup' = "sleepBroken"
            /\ UNCHANGED retry

\* Faulty variant of AfterProxy: the sleep comes before the reset of retry.
AfterProxySleepsFirst(wasClosed, err) ==
    /\ printed' = printerPrint(err)
    /\ IF wasClosed
       THEN /\ sup' = "done"
            /\ UNCHANGED <<retry, slept>>
       ELSE /\ slept' = retry
            /\ retry' = cfg.retryMin
            /\ sup' = "sleepBroken"

\* What the goroutine does when proxy returns (wasClosed, err): print the
\* error; return when closed; otherwise reset retry and sleep.
AfterProxy(wasClosed, err) ==
    /\ printed' = printerPrint(err)
    /\ IF wasClosed
       THEN /\ sup' = "done"
            /\ UNCHANGED <<retry, slept>>
       ELSE /\ retry' = cfg.retryMin
            /\ slept' = cfg.retryMin
            /\ sup' = "sleepBroken"

\* Faulty variant of IOReturn: a failed job is put back to be retried on the next
\* socket.
IOReturnRetries(n, err) ==
    /\ sup = "io"
    /\ jobOp[cur] \in {_read, _write}
    /\ cur' = 0
    /\ IF err # nil
       THEN /\ jobs' = <<cur>> \o jobs
            /\ open' = open \ {conn}
            /\ conn' = 0
            /\ AfterProxy(FALSE, err)
            /\ UNCHANGED <<results, sendCount>>
       ELSE /\ results' = [results EXCEPT ![cur] = Append(@, rillResult(n, err))]
            /\ sendCount' = [sendCount EXCEPT ![cur] = @ + 1]
            /\ sup' = "proxy"
            /\ printed' = <<>>
            /\ UNCHANGED <<open, conn, retry, slept, jobs>>
    /\ UNCHANGED <<cfg, closed, nextSock, dialFails, grown, accepted,
                   execLog, popCount, sockRet, behind, suspended>>
    /\ UNCHANGED callerVars

\* Faulty variant of IOReturn: on an error every job still in client.jobs is
\* answered with that error and dropped.
IOReturnFailsPending(n, err) ==
    /\ sup = "io"
    /\ jobOp[cur] \in {_read, _write}
    /\ cur' = 0
    /\ sockRet' = [sockRet EXCEPT ![cur] = Append(@, rillResult(n, err))]
    /\ IF err # nil
       THEN /\ results' = [j \in JobIds |->
                  IF j = cur \/ \E i \in 1..Len(jobs) : jobs[i] = j
                  THEN Append(results[j], rillResult(n, err))
                  ELSE results[j]]
            /\ sendCount' = [j \in JobIds |->
                  IF j = cur \/ \E i \in 1..Len(jobs) : jobs[i] = j
                  THEN sendCount[j] + 1
                  ELSE sendCount[j]]
            /\ jobs' = <<>>
            /\ open' = open \ {conn}
            /\ conn' = 0
            /\ behind' = behind \cup {jobs[i] : i \in 1..Len(jobs)}
            /\ AfterProxy(FALSE, err)
       ELSE /\ results' = [results EXCEPT ![cur] = Append(@, rillResult(n, err))]
            /\ sendCount' = [sendCount EXCEPT ![cur] = @ + 1]
            /\ sup' = "proxy"
            /\ printed' = <<>>
            /\ UNCHANGED <<open, conn, retry, slept, behind, jobs>>
    /\ UNCHANGED <<cfg, closed, nextSock, dialFails, grown, accepted,
                   execLog, popCount, suspended>>
    /\ UNCHANGED callerVars

\* Faulty variant of IOReturn: the socket of a failed operation is not closed.
IOReturnLeaks(n, err) ==
    /\ sup = "io"
    /\ jobOp[cur] \in {_read, _write}
    /\ results' = [results EXCEPT ![cur] = Append(@, rillResult(n, err))]
    /\ sendCount' = [sendCount EXCEPT ![cur] = @ + 1]
    /\ cur' = 0
    /\ sockRet' = [sockRet EXCEPT ![cur] = Append(@, rillResult(n, err))]
    /\ IF err # nil
       THEN /\ conn' = 0
            /\ UNCHANGED open
            /\ behind' = behind \cup {jobs[i] : i \in 1..Len(jobs)}
            /\ AfterProxy(FALSE, err)
       ELSE /\ sup' = "proxy"
            /\ printed' = <<>>
            /\ UNCHANGED <<open, conn, retry, slept, behind>>
    /\ UNCHANGED <<cfg, closed, nextSock, dialFails, grown, jobs, accepted,
                   execLog, popCount, suspended>>
    /\ UNCHANGED callerVars

\* Faulty variant of IOReturn: on an error the socket is closed and proxy
\* returns with the result not yet sent.
IOReturnClosesFirst(n, err) ==
    /\ sup = "io"
    /\ jobOp[cur] \in {_read, _write}
    /\ results' = IF err # nil THEN results
                  ELSE [results EXCEPT ![cur] = Append(@, rillResult(n, err))]
    /\ sendCount' = IF err # nil THEN sendCount
                    ELSE [sendCount EXCEPT ![cur] = @ + 1]
    /\ cur' = 0
    /\ sockRet' = [sockRet EXCEPT ![cur] = Append(@, rillResult(n, err))]
    /\ IF err # nil
       THEN /\ open' = open \ {conn}
            /\ conn' = 0
            /\ behind' = behind \cup {jobs[i] : i \in 1..Len(jobs)}
            /\ AfterProxy(FALSE, err)
       ELSE /\ sup' = "proxy"
            /\ printed' = <<>>
            /\ UNCHANGED <<open, conn, retry, slept, behind>>
    /\ UNCHANGED <<cfg, closed, nextSock, dialFails, grown, jobs, accepted,
                   execLog, popCount, suspended>>
    /\ UNCHANGED callerVars

\* rwc.Read / rwc.Write returns (n, err): the result is sent; on an error
\* the socket is closed and proxy returns (false, err).
IOReturn(n, err) ==
    /\ sup = "io"
    /\ jobOp[cur] \in {_read, _write}
    /\ results' = [results EXCEPT ![cur] = Append(@, rillResult(n, err))]
    /\ sendCount' = [sendCount EXCEPT ![cur] = @ + 1]
    /\ cur' = 0
    /\ sockRet' = [sockRet EXCEPT ![cur] = Append(@, rillResult(n, err))]
    /\ IF err # nil
       THEN /\ open' = open \ {conn}
            /\ conn' = 0
            /\ behind' = behind \cup {jobs[i] : i \in 1..Len(jobs)}
            /\ AfterProxy(FALSE, err)
       ELSE /\ sup' = "proxy"
            /\ printed' = <<>>
            /\ UNCHANGED <<open, conn, retry, slept, behind>>
    /\ UNCHANGED <<cfg, closed, nextSock, dialFails, grown, jobs, accepted,
                   execLog, popCount, suspended>>
    /\ UNCHANGED callerVars

\* rwc.Close returns err for a _close job: the result is sent and proxy
\* returns (true, err).
CloseReturn(err) ==
    /\ sup = "io"
    /\ jobOp[cur] = _close
    /\ results' = [results EXCEPT ![cur] = Append(@, rillResult(0, err))]
    /\ sendCount' = [sendCount EXCEPT ![cur] = @ + 1]
    /\ cur' = 0
    /\ open' = open \ {conn}
    /\ conn' = 0
    /\ sockRet' = [sockRet EXCEPT ![cur] = Append(@, rillResult(0, err))]
    /\ AfterProxy(TRUE, err)
    /\ UNCHANGED <<cfg, closed, nextSock, dialFails, grown, jobs, accepted,
                   execLog, popCount, behind, suspended>>
    /\ UNCHANGED callerVars

\* time.Sleep(retry) returns after a broken connection: dial again.
WakeBroken ==
    /\ sup = "sleepBroken"
    /\ sup' = "dial"
    /\ printed' = <<>>
    /\ UNCHANGED <<cfg, retry, conn, closed, cur, open, nextSock,
                   slept, dialFails, grown, jobs, results>>
    /\ UNCHANGED callerVars
    /\ UNCHANGED histVars

\* ---------------------------------------------------------------- callers
\* A Close call has returned to its caller.
closeReturned == \E j \in JobIds : jobOp[j] = _close /\ returned[j] # <<>>

\* Read, Write or Close is called: newRillJob(op, data).
Call(c, op) ==
    /\ sup # "none"
    /\ cpc[c] = "idle"
    /\ nextJob \in DOMAIN jobOp
    /\ cjob' = [cjob EXCEPT ![c] = nextJob]
    /\ jobOp' = [jobOp EXCEPT ![nextJob] = op]
    /\ \E data \in Payloads :
          jobData' = [jobData EXCEPT ![nextJob] = IF op = _write THEN data ELSE <<>>]
    /\ nextJob' = nextJob + 1
    /\ cpc' = [cpc EXCEPT ![c] = "send"]
    /\ afterClose' = IF closeReturned THEN afterClose \cup {nextJob}
                     ELSE afterClose
    /\ UNCHANGED <<cfg, jobs, results, returned>>
    /\ UNCHANGED supVars
    /\ UNCHANGED histVars

\* Faulty variant of Send: a send that does not wait; the job is dropped when
\* the channel is full.
SendDrops(c) ==
    /\ cpc[c] = "send"
    /\ IF Len(jobs) < DefaultJobQueueSize
       THEN /\ jobs' = Append(jobs, cjob[c])
            /\ accepted' = Append(accepted, cjob[c])
       ELSE UNCHANGED <<jobs, accepted>>
    /\ cpc' = [cpc EXCEPT ![c] = "recv"]
    /\ UNCHANGED <<cfg, results, cjob, returned, nextJob, jobOp, jobData, afterClose,
                   execLog, popCount, sendCount, sockRet, behind, suspended>>
    /\ UNCHANGED supVars

\* client.jobs <- job: blocks while the channel holds DefaultJobQueueSize jobs.
Send(c) ==
    /\ cpc[c] = "send"
    /\ Len(jobs) < DefaultJobQueueSize
    /\ jobs' = Append(jobs, cjob[c])
    /\ accepted' = Append(accepted, cjob[c])
    /\ cpc' = [cpc EXCEPT ![c] = "recv"]
    /\ UNCHANGED <<cfg, results, cjob, returned, nextJob, jobOp, jobData, afterClose,
                   execLog, popCount, sendCount, sockRet, behind, suspended>>
    /\ UNCHANGED supVars

\* if result.err != nil { result.err = ErrIOError{op, result.err} }
Wrapped(op, result) ==
    IF result.err # nil
    THEN rillResult(result.n, ErrIOError(op, result.err))
    ELSE result

\* result := <-job.results; the call returns result.n, result.err.
Recv(c) ==
    /\ cpc[c] = "recv"
    /\ results[cjob[c]] # <<>>
    /\ returned' = [returned EXCEPT
           ![cjob[c]] = <<Wrapped(jobOp[cjob[c]], Head(results[cjob[c]]))>>]
    /\ results' = [results EXCEPT ![cjob[c]] = Tail(@)]
    /\ cpc' = [cpc EXCEPT ![c] = "idle"]
    /\ UNCHANGED <<cfg, jobs, cjob, nextJob, jobOp, jobData, afterClose>>
    /\ UNCHANGED supVars
    /\ UNCHANGED histVars

Next ==
    \/ DialFail
    \/ WakeFail
    \/ DialOk
    \/ ProxyPop
    \/ \E n \in Counts, err \in {nil, EIO} : IOReturn(n, err)
    \/ \E err \in {nil, EIO} : CloseReturn(err)
    \/ WakeBroken
    \/ \E c \in Callers, op \in opcode : Call(c, op)
    \/ \E c \in Callers : Send(c)
    \/ \E c \in Callers : Recv(c)

Spec == Init /\ [][Next]_vars

\* A burst of calls: New has returned, the first dial has not, and
\* DefaultJobQueueSize - 1 goroutines have each called Write and wait for
\* their results; two more goroutines are about to make one call each.
BurstWaiting == 1..(DefaultJobQueueSize - 1)
BurstCallers == 1..(DefaultJobQueueSize + 1)
BurstFree == BurstCallers \ BurstWaiting

InitBurst ==
    /\ cfg = [address |-> "host", printer |-> TRUE, retryMin |-> 1,
              retryMax |-> 8]
    /\ printed = <<>>
    /\ sup = "dial"
    /\ retry = cfg.retryMin
    /\ conn = 0
    /\ closed = FALSE
    /\ cur = 0
    /\ jobs = [i \in BurstWaiting |-> i]
    /\ jobOp = [j \in BurstCallers |-> IF j \in BurstWaiting THEN _write ELSE _read]
    /\ jobData = [j \in BurstCallers |-> IF j \in BurstWaiting THEN Hello ELSE <<>>]
    /\ results = [j \in BurstCallers |-> <<>>]
    /\ nextJob = DefaultJobQueueSize
    /\ cpc = [c \in BurstCallers |-> IF c \in BurstWaiting THEN "recv" ELSE "idle"]
    /\ cjob = [c \in BurstCallers |-> IF c \in BurstWaiting THEN c ELSE 0]
    /\ returned = [j \in BurstCallers |-> <<>>]
    /\ open = {}
    /\ nextSock = 1
    /\ slept = 0
    /\ dialFails = 0
    /\ grown = FALSE
    /\ accepted = [i \in BurstWaiting |-> i]
    /\ execLog = <<>>
    /\ popCount = [j \in BurstCallers |-> 0]
    /\ sendCount = [j \in BurstCallers |-> 0]
    /\ sockRet = [j \in BurstCallers |-> <<>>]
    /\ behind = {}
    /\ suspended = {}
    /\ afterClose = {}

NextBurst ==
    \/ DialFail
    \/ WakeFail
    \/ DialOk
    \/ ProxyPop
    \/ IOReturn(12, nil)
    \/ \E err \in {nil, EIO} : CloseReturn(err)
    \/ \E c \in BurstFree, op \in {_write, _close} : Call(c, op)
    \/ \E c \in BurstCallers : Send(c)
    \/ \E c \in BurstCallers : Recv(c)

SpecBurst == InitBurst /\ [][NextBurst]_vars

\* The steps of the goroutine New starts.
Supervisor ==
    \/ DialFail
    \/ WakeFail
    \/ DialOk
    \/ ProxyPop
    \/ \E n \in Counts, err \in {nil, EIO} : IOReturn(n, err)
    \/ \E err \in {nil, EIO} : CloseReturn(err)
    \/ WakeBroken

\* The Go scheduler runs every goroutine that can take a step; dials, sleeps
\* and socket operations return; a channel operation that can proceed does.
FairSpec ==
    /\ Spec
    /\ WF_vars(Supervisor)
    /\ \A c \in Callers : WF_vars(Send(c)) /\ WF_vars(Recv(c))

\* ================================================================ claims
\* The result of a _close job has been sent: proxy processed a Close.
CloseProcessed == \E j \in JobIds : jobOp[j] = _close /\ sendCount[j] > 0

\* Jobs received from client.jobs whose result has not been sent yet.
InFlight == {j \in JobIds : popCount[j] > sendCount[j]}

\* The model's bound on dials is used up: no further dial can succeed.
DialBoundReached == sup = "dial" /\ nextSock > MaxSocks

\* Number of socket operations performed for job j.
RECURSIVE ExecCount(_, _)
ExecCount(j, i) ==
    IF i = 0 THEN 0
    ELSE ExecCount(j, i - 1) + (IF execLog[i][1] = j THEN 1 ELSE 0)

\* C1: every call made after a Close call has returned eventually returns,
\* and returns the ErrClosedConnection error.
C1_AfterCloseAnswered ==
    \A j \in JobIds :
        (j \in afterClose) ~>
            (returned[j] # <<>> /\ returned[j][1].err = ErrClosedConnection)

\* C2: socket operations happen in the order in which client.jobs accepted
\* the jobs, across reconnects: the i-th operation is that of the i-th
\* accepted job.
C2_FifoExecution ==
    /\ Len(execLog) <= Len(accepted)
    /\ \A i \in 1..Len(execLog) : execLog[i][1] = accepted[i]

\* C2 witness: two jobs were performed, on two different sockets.
C2_Witness ==
    /\ Len(execLog) = 2
    /\ execLog[1][2] # execLog[2][2]

\* C3: at most one job is in the middle of a socket operation, it is the one
\* the goroutine holds, on the open socket the goroutine holds; every socket
\* operation is that of a job received from client.jobs, none is made by a
\* caller.
C3_SingleOwner ==
    /\ Cardinality(InFlight) <= 1
    /\ InFlight # {} => (sup = "io" /\ InFlight = {cur} /\ conn \in open)
    /\ sup = "io" => InFlight = {cur}
    /\ \A i \in 1..Len(execLog) :
          /\ popCount[execLog[i][1]] >= 1
          /\ \E k \in 1..Len(accepted) : accepted[k] = execLog[i][1]

\* C3 witness: one job is on the socket while another waits in client.jobs
\* and both callers wait for their results.
C3_Witness ==
    /\ sup = "io"
    /\ jobs # <<>>
    /\ \A c \in Callers : cpc[c] = "recv"

\* C4: every job is received from client.jobs at most once, performed on a
\* socket at most once, and gets at most one result.
C4_NoDuplicate ==
    \A j \in JobIds :
        /\ popCount[j] <= 1
        /\ ExecCount(j, Len(execLog)) <= 1
        /\ sendCount[j] <= 1
        /\ Len(results[j]) <= 1

\* C4 witness: a job failed, its call returned the error, and the goroutine
\* holds the next socket.
C4_Witness ==
    /\ conn = 2
    /\ \E j \in JobIds :
          /\ returned[j] # <<>>
          /\ returned[j][1].err # nil
          /\ popCount[j] = 1
          /\ sendCount[j] = 1
          /\ ExecCount(j, Len(execLog)) = 1

\* C5: every job created by a call eventually has its call return (unless the
\* model's bound on dials is used up).
C5_NoJobLost ==
    \A j \in JobIds :
        (j < nextJob) ~> (returned[j] # <<>> \/ DialBoundReached)

\* C6: once a Close has been processed the goroutine has returned, and stays
\* so: no dial, no sleep, no new socket, and closed stays set.
C6_TerminatedForGood ==
    /\ [](CloseProcessed => (sup = "done" /\ closed /\ conn = 0 /\ open = {}))
    /\ [][sup = "done" =>
            /\ sup' = "done"
            /\ closed'
            /\ nextSock' = nextSock
            /\ open' = open
            /\ dialFails' = dialFails
            /\ slept' = slept]_vars

\* C6 witness: closing the socket failed for a Close, the Close call returned
\* that error, and a later job waits in client.jobs.
C6_Witness ==
    /\ sup = "done"
    /\ jobs # <<>>
    /\ \E j \in JobIds :
          /\ returned[j] # <<>>
          /\ returned[j][1].err = ErrIOError(_close, EIO)

\* C7: the goroutine returns only from performing a _close job; after a dial
\* failure and after a failed Read or Write it sleeps and dials again.
C7_OnlyCloseTerminates ==
    /\ [][(sup # "done" /\ sup' = "done") =>
            (sup = "io" /\ jobOp[cur] = _close)]_vars
    /\ [][(sup = "dial" /\ sup' # sup) => sup' \in {"sleepFail", "proxy"}]_vars
    /\ [][(sup = "sleepFail" /\ sup' # sup) => sup' = "dial"]_vars
    /\ [][(sup = "io" /\ jobOp[cur] # _close /\ sup' # sup) =>
            sup' \in {"proxy", "sleepBroken"}]_vars
    /\ [][(sup = "sleepBroken" /\ sup' # sup) => sup' = "dial"]_vars

\* C7 witness: after dial failures, a successful dial and a failed Read or
\* Write, the goroutine is dialing again after another dial failure.
C7_Witness ==
    /\ sup = "dial"
    /\ nextSock > 1
    /\ dialFails = MaxDialFails
    /\ grown
    /\ \E j \in JobIds :
          /\ returned[j] # <<>>
          /\ returned[j][1].err \in {ErrIOError(_read, EIO), ErrIOError(_write, EIO)}

\* C8: the delay slept after the k-th consecutive dial failure (k from 0) is
\* min(retryMin * 2^k, retryMax).
C8_BackoffSequence ==
    sup = "sleepFail" =>
        slept = Min(cfg.retryMin * 2^(dialFails - 1), cfg.retryMax)

\* C9: after a successful dial the first dial failure sleeps retryMin,
\* whatever retry had grown to before, and the doubling restarts from
\* retryMin.
C9_BackoffRestarts ==
    /\ (sup = "sleepFail" /\ dialFails = 1 /\ nextSock > 1) =>
          (slept = cfg.retryMin /\ retry = cfg.retryMin)
    /\ (sup = "dial" /\ dialFails = 1 /\ nextSock > 1) =>
          retry = (IF Wrap(2 * cfg.retryMin) > cfg.retryMax
                   THEN cfg.retryMax ELSE Wrap(2 * cfg.retryMin))

\* C9 witness: retry had grown before the last successful dial, and the
\* first dial failure after that connection is being slept.
C9_Witness ==
    /\ sup = "sleepFail"
    /\ dialFails = 1
    /\ nextSock > 1
    /\ grown
    /\ cfg.retryMin = 1

\* C10: a failed Read or Write is followed at once by one sleep of retryMin,
\* whatever retry was before, and that sleep by the next dial.
C10_OneMinSleep ==
    /\ [](sup = "sleepBroken" => slept = cfg.retryMin)
    /\ [][(sup = "io" /\ jobOp[cur] # _close
             /\ sendCount'[cur] = sendCount[cur] + 1
             /\ results'[cur][Len(results'[cur])].err # nil) =>
            (sup' = "sleepBroken" /\ slept' = cfg.retryMin)]_vars
    /\ [][(sup = "sleepBroken" /\ sup' # sup) =>
            (sup' = "dial" /\ slept' = slept /\ dialFails' = dialFails)]_vars

\* C10 witness: the connection broke after retry had grown before it was
\* established, and the goroutine is in the sleep that follows.
C10_Witness ==
    /\ sup = "sleepBroken"
    /\ grown
    /\ cfg.retryMin = 1
    /\ cfg.retryMax = 8

\* C11: New starts the goroutine only for a configuration with a non-empty
\* address and 0 < retryMin <= retryMax; for every other configuration it
\* returns an error and starts nothing.
C11_NewValidates ==
    (sup # "none") <=>
        (cfg.address # "" /\ 0 < cfg.retryMin /\ cfg.retryMin <= cfg.retryMax)

\* The jobs in client.jobs.
Queued == {jobs[i] : i \in 1..Len(jobs)}

\* The socket on which job j was performed (0: not performed).
SockOf(j) ==
    IF \E i \in 1..Len(execLog) : execLog[i][1] = j
    THEN execLog[CHOOSE i \in 1..Len(execLog) : execLog[i][1] = j][2]
    ELSE 0

IOFails ==
    /\ sup = "io"
    /\ Len(sockRet'[cur]) = Len(sockRet[cur]) + 1
    /\ sockRet'[cur][Len(sockRet'[cur])].err # nil

\* What an I/O failure does whatever the operation: the error is the one sent
\* on the job's results channel, it is printed when a printer is set, and
\* the socket is closed and given up.
FailureHandled ==
    /\ Len(results'[cur]) = Len(results[cur]) + 1
    /\ results'[cur][Len(results'[cur])] = sockRet'[cur][Len(sockRet'[cur])]
    /\ cfg.printer => printed' = <<sockRet'[cur][Len(sockRet'[cur])].err>>
    /\ conn \notin open'
    /\ conn' = 0

\* The call of a job whose socket operation failed returns that error, tagged.
FailureReturned ==
    \A j \in JobIds :
        (returned[j] # <<>> /\ sockRet[j][1].err # nil) =>
            returned[j][1].err = <<"ErrIOError", jobOp[j]>> \o sockRet[j][1].err

\* C13: every failed Read, Write or Close is returned to its caller, printed
\* when a printer is set, and closes the socket and sends the goroutine back
\* to dialing (through the retryMin sleep), a failed close of a Close job
\* included.
C13_EveryFailureRedials ==
    /\ []FailureReturned
    /\ [][IOFails => (FailureHandled /\ sup' = "sleepBroken")]_vars
    /\ [][(sup = "sleepBroken" /\ sup' # sup) => sup' = "dial"]_vars

\* C13 as amended: as above for a failed Read or Write; a failed close of a
\* Close job is returned and printed and the socket is given up, but the
\* goroutine returns instead of dialing again.
C13_FailureRedialsUnlessClose ==
    /\ []FailureReturned
    /\ [][IOFails =>
            /\ FailureHandled
            /\ sup' = (IF jobOp[cur] = _close THEN "done" ELSE "sleepBroken")]_vars
    /\ [][(sup = "sleepBroken" /\ sup' # sup) => sup' = "dial"]_vars
    /\ [][sup = "done" => sup' = "done"]_vars

\* C13 witness: with a printer set, a Read or Write failed, the error was
\* printed and returned to the caller, and the goroutine is in the sleep
\* before the next dial.
C13_Witness ==
    /\ cfg.printer
    /\ sup = "sleepBroken"
    /\ printed = <<EIO>>
    /\ conn = 0
    /\ \E j \in JobIds :
          /\ returned[j] # <<>>
          /\ returned[j][1].err \in {ErrIOError(_read, EIO), ErrIOError(_write, EIO)}

\* The errors a socket operation can return, and their tagged forms.
SocketErrors == {nil, EIO}
CallErrors == {nil} \cup {ErrIOError(op, EIO) : op \in opcode}

\* C14: no result and no return value carries a dial error; a dial failure
\* leaves client.jobs and every results channel as they are and is handed
\* only to the printer; while the goroutine dials or sleeps no job leaves
\* client.jobs and no result is sent.
C14_DialFailureNotSurfaced ==
    /\ [](\A j \in JobIds :
            /\ \A i \in 1..Len(results[j]) : results[j][i].err \in SocketErrors
            /\ returned[j] # <<>> => returned[j][1].err \in CallErrors)
    /\ [][(sup = "dial" /\ sup' = "sleepFail") =>
            /\ jobs' = jobs
            /\ results' = results
            /\ returned' = returned
            /\ cfg.printer =>
                  printed' = <<ErrDialFailure(cfg.address, EDIAL)>>]_vars
    /\ [][(sup = "dial" \/ sup = "sleepFail") =>
            (/\ sendCount' = sendCount
             /\ popCount' = popCount
             /\ Len(jobs') >= Len(jobs)
             /\ SubSeq(jobs', 1, Len(jobs)) = jobs)]_vars

\* C14 witness: a dial has just failed and was printed while a job waits in
\* client.jobs and its caller waits for the result.
C14_Witness ==
    /\ sup = "sleepFail"
    /\ printed = <<ErrDialFailure("host", EDIAL)>>
    /\ jobs # <<>>
    /\ \E c \in Callers :
          /\ cpc[c] = "recv"
          /\ cjob[c] = jobs[1]
          /\ results[cjob[c]] = <<>>

\* The step in which a dial fails.
DialFails == sup = "dial" /\ sup' = "sleepFail"

\* A step of the goroutine: its position or a history of its work changes.
GoroutineStep ==
    \/ sup' # sup
    \/ popCount' # popCount
    \/ sendCount' # sendCount

\* C15: with a printer set, every failed dial and every failed socket
\* operation is printed exactly once, by the step that meets it, and no other
\* step of the goroutine prints; without a printer nothing is printed and the
\* goroutine moves as it does with one.
C15_PrintedOncePerFailure ==
    /\ [](Len(printed) <= 1)
    /\ [](~cfg.printer => printed = <<>>)
    /\ [][DialFails =>
            /\ cfg.printer => printed' = <<ErrDialFailure(cfg.address, EDIAL)>>
            /\ slept' = retry]_vars
    /\ [][IOFails =>
            /\ cfg.printer => Len(printed') = 1
            /\ sup' = (IF jobOp[cur] = _close THEN "done" ELSE "sleepBroken")]_vars
    /\ [][(GoroutineStep /\ ~DialFails /\ ~IOFails) => printed' = <<>>]_vars
    /\ [][~GoroutineStep => printed' = printed]_vars

\* C15 witness: with a printer set, a Close job whose close succeeded has been
\* performed and nothing was printed for it.
C15_Witness ==
    /\ cfg.printer
    /\ sup = "done"
    /\ printed = <<>>
    /\ \E j \in JobIds :
          /\ jobOp[j] = _close
          /\ sockRet[j] = <<rillResult(0, nil)>>

\* C16: the error of a failed socket operation carries the tag of the job's
\* operation both in what the call returns and in what the printer is handed.
C16_ErrorsTagged ==
    /\ [](\A j \in JobIds :
            (returned[j] # <<>> /\ returned[j][1].err # nil) =>
                /\ returned[j][1].err[1] = "ErrIOError"
                /\ returned[j][1].err[2] = jobOp[j])
    /\ [][(IOFails /\ cfg.printer) =>
            /\ Len(printed') = 1
            /\ printed'[1][1] = "ErrIOError"
            /\ printed'[1][2] = jobOp[cur]]_vars

\* C17: client.jobs never holds more than DefaultJobQueueSize jobs; a caller
\* whose send finds the channel full stays in its send until the goroutine
\* receives a job, and when it leaves the send its job is the newest element
\* of the channel; a job that left the send is in the channel or was received.
C17_QueueBounded ==
    /\ [](Len(jobs) <= DefaultJobQueueSize)
    /\ [](\A c \in DOMAIN cpc :
            cpc[c] = "recv" => (cjob[c] \in Queued \/ popCount[cjob[c]] = 1))
    /\ [][\A c \in DOMAIN cpc :
            (cpc[c] = "send" /\ Len(jobs) = DefaultJobQueueSize) =>
                \/ cpc'[c] = "send" /\ cjob'[c] = cjob[c]
                \/ Len(jobs') < Len(jobs)]_vars
    /\ [][\A c \in DOMAIN cpc :
            (cpc[c] = "send" /\ cpc'[c] # "send") =>
                /\ Len(jobs) < DefaultJobQueueSize
                /\ jobs' = Append(jobs, cjob[c])
                /\ cpc'[c] = "recv"]_vars

\* C17 witness: a job whose send waited on a full channel when the goroutine
\* received a job is now in the channel, which is full again.
C17_Witness ==
    /\ Len(jobs) = DefaultJobQueueSize
    /\ \E j \in suspended : jobs[Len(jobs)] = j

\* C18: a Write whose socket write succeeded returns the count the socket
\* returned with a nil error, and the socket was handed the job's data, whole
\* and unchanged, exactly once.
C18_WriteDelivered ==
    \A j \in JobIds :
        (jobOp[j] = _write /\ sockRet[j] # <<>> /\ sockRet[j][1].err = nil) =>
            /\ Len(sockRet[j]) = 1
            /\ jobData[j] \in Payloads
            /\ ExecCount(j, Len(execLog)) = 1
            /\ \A i \in 1..Len(execLog) :
                  execLog[i][1] = j => execLog[i][3] = jobData[j]
            /\ \A i \in 1..Len(results[j]) : results[j][i] = sockRet[j][1]
            /\ returned[j] # <<>> =>
                  returned[j] = <<rillResult(sockRet[j][1].n, nil)>>

\* C18 witness: a Write of the 12 bytes of "hello, world" returned (12, nil) and
\* the socket was handed those 12 bytes.
C18_Witness ==
    \E j \in JobIds :
        /\ jobOp[j] = _write
        /\ jobData[j] = Hello
        /\ Len(Hello) = 12
        /\ returned[j] = <<rillResult(12, nil)>>
        /\ \E i \in 1..Len(execLog) : execLog[i] = <<j, SockOf(j), Hello>>

\* C19: at most one socket is open, and it is the one the goroutine holds in
\* proxy; whenever the goroutine is dialing, sleeping or has returned, every
\* socket a dial returned has been closed.
C19_OneSocketNoLeak ==
    /\ Cardinality(open) <= 1
    /\ open \subseteq {conn}
    /\ (sup = "proxy" \/ sup = "io") => (open = {conn} /\ conn = nextSock - 1)
    /\ (sup \in {"none", "dial", "sleepFail", "sleepBroken", "done"}) =>
           (open = {} /\ conn = 0)

\* C19 witness: two dials succeeded; the first socket was closed on a failed
\* Read or Write, the second by a Close job, and the goroutine has returned.
C19_Witness ==
    /\ sup = "done"
    /\ nextSock = 3
    /\ open = {}
    /\ \E j \in JobIds : sockRet[j] # <<>> /\ sockRet[j][1].err # nil
                          /\ jobOp[j] # _close

\* C20: for every configuration New accepts with 0 < retryMin <= retryMax, the
\* goroutine's retry, and every delay it sleeps after a dial failure, stays
\* within retryMin..retryMax: the doubling never wraps.
C20_DelayInRange ==
    (sup # "none" /\ 0 < cfg.retryMin /\ cfg.retryMin <= cfg.retryMax) =>
        /\ cfg.retryMin <= retry
        /\ retry <= cfg.retryMax
        /\ sup = "sleepFail" => (cfg.retryMin <= slept /\ slept <= cfg.retryMax)

\* The goroutine holds no socket: it is dialing or sleeping before a dial.
Outage == sup = "dial" \/ sup = "sleepFail" \/ sup = "sleepBroken"

\* C21: a job is received from client.jobs, and a result is sent, only in a
\* step the goroutine takes inside proxy with its socket open; during an
\* outage the goroutine only dials and sleeps, it never returns, and the jobs
\* already in client.jobs keep their places. Hence a Close call returns only
\* after its job was received on a socket, with every job accepted before it
\* received earlier, and the goroutine has returned only when the socket
\* close of some Close job was done.
C21_OutageHoldsJobs ==
    /\ [][(popCount' # popCount \/ sendCount' # sendCount) =>
            /\ (sup = "proxy" \/ sup = "io")
            /\ open = {conn}]_vars
    /\ [][Outage =>
            /\ popCount' = popCount
            /\ sendCount' = sendCount
            /\ execLog' = execLog
            /\ sup' # "done"
            /\ (sup' # sup => (sup' = "dial" \/ sup' = "sleepFail" \/ sup' = "proxy"))
            /\ Len(jobs') >= Len(jobs)
            /\ SubSeq(jobs', 1, Len(jobs)) = jobs]_vars
    /\ [](\A j \in JobIds :
            (jobOp[j] = _close /\ (returned[j] # <<>> \/ results[j] # <<>>)) =>
                /\ popCount[j] = 1
                /\ SockOf(j) # 0
                /\ \A k \in 1..Len(accepted) :
                      accepted[k] = j =>
                          \A i \in 1..k : popCount[accepted[i]] = 1)
    /\ [](sup = "done" =>
            \E j \in JobIds : jobOp[j] = _close /\ sockRet[j] # <<>>)

\* C21 witness: no dial has succeeded yet and MaxDialFails dials have failed;
\* a Write and, behind it, a Close were submitted and sit in client.jobs, both
\* callers wait, and the goroutine is dialing again.
C21_Witness ==
    /\ sup = "dial"
    /\ nextSock = 1
    /\ dialFails = MaxDialFails
    /\ Len(jobs) = 2
    /\ jobOp[jobs[1]] = _write
    /\ jobOp[jobs[2]] = _close
    /\ \A c \in Callers : cpc[c] = "recv" /\ results[cjob[c]] = <<>>

====
